---- MODULE Spec2Model ----
(***************************************************************************)
(* A model of main_rdv.py: the appointment ("rdv") table, the access gate, *)
(* and the five request handlers create / update / list / close / status.  *)
(*                                                                         *)
(* FastAPI runs each `def` handler on a worker thread, so requests run     *)
(* concurrently.  Every handler opens its own sqlite3 connection; a        *)
(* handler is split here at the points where it touches shared state: the  *)
(* clock read (utc_now_iso), each SELECT, and each INSERT/UPDATE+commit.   *)
(* The statements of one handler are NOT wrapped in one transaction by the *)
(* code (the SELECT of update_rdv runs in autocommit mode, the implicit    *)
(* BEGIN is issued only before the UPDATE), so other requests' commits may *)
(* fall between them.                                                      *)
(***************************************************************************)
EXTENDS Integers, Sequences, FiniteSets, TLC

VARIABLES
    TECH_API_KEY,   \* the process-wide secret read from the environment at import
    clock,          \* the wall clock, in whole seconds (utc_now_iso has second precision)
    rdv,            \* the rdv table: token -> row, or NoRow
    req,            \* per worker thread: the request it is handling and its locals
    admitted,       \* the number of requests admitted past the gate and the range check so far
    last            \* the response returned by the step just taken (NoResp if none)

vars == <<TECH_API_KEY, clock, rdv, req, admitted, last>>

----------------------------------------------------------------------------
(* Bounds of the model *)

\* The clock runs from 0 to MaxClock.
MaxClock == 1

\* At most MaxReqs requests are admitted (pass the gate and the range check)
\* in one run; rejected requests and the public reads are not counted.
MaxReqs == 3

\* The worker threads handling requests concurrently.
Workers == {1, 2}

\* Values secrets.token_urlsafe(32) may return.
Tokens == {"t1", "t2"}

\* Values of the X-API-Key header; None is the absent header (Header(default=None)).
None == "None"
Keys == {None, "", "k"}

\* Values of the `status` query parameter (an int): the two ends of the range
\* 0..3 and their neighbours outside it.
StatusInputs == {-1, 0, 3, 4}

\* Raw plates supplied to /create, as sequences of characters.
Plates == { <<" ", "a", "b", " ", " ", "c", "!">> }

----------------------------------------------------------------------------
(* Values *)

NoRow == [absent |-> TRUE]
NoResp == [op |-> "none"]
Idle == [pc |-> "idle"]

\* Is there a row for token, and is it closed?  (is_closed is an INTEGER column.)
HasRow(db, token) == db[token] # NoRow
IsClosed(db, token) == HasRow(db, token) /\ db[token].is_closed = 1

----------------------------------------------------------------------------
(* utc_now_iso: the clock truncated to seconds, as an ISO string.  ISO      *)
(* strings of equal width order as the instants they denote, so a          *)
(* timestamp is modelled by its second count.                              *)
utc_now_iso == clock

----------------------------------------------------------------------------
(* normalize_plate *)

\* Characters str.isspace() / the regex class \s accept.
Whitespace == {" ", "\t"}

\* The characters the final regex keeps: [A-Z0-9\-].
Allowed == {"A", "B", "C", "D", "S", "X", "Y", "0", "1", "-"}

\* str.upper() of one character; it may change the length ("ß" -> "SS") and
\* may yield a non-ASCII capital ("é" -> "É").
UpperChar(c) ==
    CASE c = "a" -> <<"A">>
      [] c = "b" -> <<"B">>
      [] c = "c" -> <<"C">>
      [] c = "d" -> <<"D">>
      [] c = "x" -> <<"X">>
      [] c = "y" -> <<"Y">>
      [] c = "é" -> <<"É">>
      [] c = "ß" -> <<"S", "S">>
      [] OTHER -> <<c>>

RECURSIVE LStrip(_)
LStrip(s) == IF s # <<>> /\ Head(s) \in Whitespace THEN LStrip(Tail(s)) ELSE s

RECURSIVE RStrip(_)
RStrip(s) ==
    IF s # <<>> /\ s[Len(s)] \in Whitespace
    THEN RStrip(SubSeq(s, 1, Len(s) - 1))
    ELSE s

\* plate.strip()
Strip(s) == RStrip(LStrip(s))

RECURSIVE Upper(_)
\* str.upper()
Upper(s) == IF s = <<>> THEN <<>> ELSE UpperChar(Head(s)) \o Upper(Tail(s))

RECURSIVE CollapseWhitespace(_)
\* re.sub(r"\s+", "-", p): every maximal run of whitespace becomes one hyphen
CollapseWhitespace(s) ==
    IF s = <<>> THEN <<>>
    ELSE IF Head(s) \in Whitespace
         THEN <<"-">> \o CollapseWhitespace(LStrip(Tail(s)))
         ELSE <<Head(s)>> \o CollapseWhitespace(Tail(s))

\* re.sub(r"[^A-Z0-9\-]", "", p)
KeepAllowed(s) == SelectSeq(s, LAMBDA c : c \in Allowed)

\* normalize_plate with its two substitutions in the other order.
normalize_plate_filter_first(plate) ==
    CollapseWhitespace(KeepAllowed(Upper(Strip(plate))))

normalize_plate(plate) == KeepAllowed(CollapseWhitespace(Upper(Strip(plate))))

----------------------------------------------------------------------------
(* require_api_key: "ok", or the HTTPException it raises *)

\* require_api_key without the test for a missing secret.
require_api_key_no_config_check(x_api_key) ==
    IF x_api_key # TECH_API_KEY THEN "unauthorized" ELSE "ok"

require_api_key(x_api_key) ==
    IF TECH_API_KEY = "" THEN "config"
    ELSE IF x_api_key # TECH_API_KEY THEN "unauthorized"
    ELSE "ok"

----------------------------------------------------------------------------
(* Responses.  `last` labels the step just taken with the request it       *)
(* completed and the response returned: code/detail are the HTTP status    *)
(* code and the `detail` of the HTTPException, body the JSON returned.     *)
(* rq holds the request: the X-API-Key header it came with (key) and, for  *)
(* a request that passed the gate, its arguments; closed_before records    *)
(* whether the row of rq.token was closed when the request began.          *)

Resp(op, rq, code, detail, body) ==
    [op |-> op, rq |-> rq, code |-> code, detail |-> detail, body |-> body]

NoBody == [none |-> TRUE]

GateError(op, g, x_api_key) ==
    IF g = "config"
    THEN Resp(op, [key |-> x_api_key], 500,
              "Server not configured (TECH_API_KEY missing)", NoBody)
    ELSE Resp(op, [key |-> x_api_key], 401, "Unauthorized", NoBody)

\* The error classes of the service, as the handlers raise them.
IsConfigError(r) == r.code = 500 /\ r.detail = "Server not configured (TECH_API_KEY missing)"
IsUnauthorized(r) == r.code = 401 /\ r.detail = "Unauthorized"
IsValidation(r) == r.code = 400 /\ r.detail = "status must be between 0 and 3"
IsNotFound(r) == r.code = 404 /\ r.detail = "Not found"
IsConflict(r) == r.code = 400 /\ r.detail = "RDV is closed"
IsOK(r) == r.code = 200

----------------------------------------------------------------------------
(* The SQL statements, as functions of the table *)

\* The INSERT with created_at left at a fixed default instead of now.
sql_insert_default_created_at(db, token, plate, now) ==
    [db EXCEPT ![token] = [plate |-> plate, status |-> 0, is_closed |-> 0,
                           created_at |-> 0, updated_at |-> now]]

\* INSERT INTO rdv (...) VALUES (token, plate, 0, 0, now, now); token is the
\* PRIMARY KEY, so the statement is only executed on a table without that token.
sql_insert(db, token, plate, now) ==
    [db EXCEPT ![token] = [plate |-> plate, status |-> 0, is_closed |-> 0,
                           created_at |-> now, updated_at |-> now]]

\* UPDATE rdv SET status=?, updated_at=? with no WHERE clause: every row.
sql_update_status_all_rows(db, token, status, now) ==
    [t \in Tokens |->
        IF HasRow(db, t)
        THEN [db[t] EXCEPT !.status = status, !.updated_at = now]
        ELSE db[t]]

\* UPDATE rdv SET status=MAX(status, ?), updated_at=? WHERE token=?: a
\* forward-only update.
sql_update_status_forward_only(db, token, status, now) ==
    IF HasRow(db, token)
    THEN [db EXCEPT ![token].status = IF status > @ THEN status ELSE @,
                    ![token].updated_at = now]
    ELSE db

\* UPDATE rdv SET status=?, updated_at=? WHERE token=?
sql_update_status(db, token, status, now) ==
    IF HasRow(db, token)
    THEN [db EXCEPT ![token].status = status, ![token].updated_at = now]
    ELSE db

\* INSERT OR REPLACE of a closed row: it closes the row, or adds one.
sql_close_upsert(db, token, now) ==
    IF HasRow(db, token)
    THEN [db EXCEPT ![token].is_closed = 1, ![token].updated_at = now]
    ELSE [db EXCEPT ![token] = [plate |-> <<>>, status |-> 0, is_closed |-> 1,
                                created_at |-> now, updated_at |-> now]]

\* DELETE FROM rdv WHERE token=?: closing by deleting the row.
sql_close_deletes(db, token, now) == [db EXCEPT ![token] = NoRow]

\* UPDATE rdv SET is_closed=1, updated_at=? WHERE token=?
sql_close(db, token, now) ==
    IF HasRow(db, token)
    THEN [db EXCEPT ![token].is_closed = 1, ![token].updated_at = now]
    ELSE db

\* The rowcount of an UPDATE ... WHERE token=? AND is_closed=0.
rowcount_open_only(db, token) ==
    IF HasRow(db, token) /\ db[token].is_closed = 0 THEN 1 ELSE 0

\* cursor.rowcount of the UPDATE ... WHERE token=?
rowcount(db, token) == IF HasRow(db, token) THEN 1 ELSE 0

\* The SELECT without its WHERE clause.
open_tokens_unfiltered(db) == {t \in Tokens : HasRow(db, t)}

\* SELECT ... FROM rdv WHERE is_closed = 0: the tokens of the rows selected
open_tokens(db) == {t \in Tokens : HasRow(db, t) /\ db[t].is_closed = 0}

\* ORDER BY updated_at DESC: every order of the selected rows the clause
\* allows (rows of equal updated_at come in an order SQLite does not fix).
ordered_desc(db, S) ==
    {s \in [1..Cardinality(S) -> S] :
        /\ \A i, j \in 1..Cardinality(S) : i # j => s[i] # s[j]
        /\ \A i, j \in 1..Cardinality(S) :
              i < j => db[s[i]].updated_at >= db[s[j]].updated_at}

\* One item of the list response.
list_item(db, t) ==
    [token |-> t, plate |-> db[t].plate, status |-> db[t].status,
     created_at |-> db[t].created_at, updated_at |-> db[t].updated_at]

----------------------------------------------------------------------------
(* The status range check of update_rdv *)

\* The range check without its lower bound.
status_out_of_range_upper_only(status) == status > 3

\* The range check with its upper bound off by one.
status_out_of_range_upper_4(status) == status < 0 \/ status > 4

status_out_of_range(status) == status < 0 \/ status > 3

\* update_check without the is_closed test.
update_check_ignores_closed(db, token) ==
    IF ~HasRow(db, token) THEN "not_found" ELSE "ok"

\* The checks of update_rdv on the row its SELECT fetched.
update_check(db, token) ==
    IF ~HasRow(db, token) THEN "not_found"       \* if not row: 404
    ELSE IF db[token].is_closed = 1 THEN "closed" \* if row[0] == 1: 400
    ELSE "ok"

\* A uniqueness constraint that covers the open rows only.
pk_violation_open_only(db, token) == HasRow(db, token) /\ db[token].is_closed = 0

\* A table without the constraint (or INSERT OR REPLACE): nothing is rejected.
pk_violation_never(db, token) == FALSE

\* The PRIMARY KEY constraint: an INSERT of a token already present raises
\* sqlite3.IntegrityError and writes nothing.
pk_violation(db, token) == HasRow(db, token)

\* get_status answering a closed record otherwise than an absent one.
get_status_resp_closed_differs(db, token) ==
    IF ~HasRow(db, token)
    THEN [code |-> 404, detail |-> "Not found", body |-> NoBody]
    ELSE IF db[token].is_closed = 1
    THEN [code |-> 404, detail |-> "RDV is closed", body |-> NoBody]
    ELSE [code |-> 200, detail |-> "",
          body |-> [token |-> token, plate |-> db[token].plate,
                    status |-> db[token].status,
                    updated_at |-> db[token].updated_at]]

\* The projection get_status returns, or its 404.
get_status_resp(db, token) ==
    IF ~HasRow(db, token)
    THEN [code |-> 404, detail |-> "Not found", body |-> NoBody]
    ELSE IF db[token].is_closed = 1
    THEN [code |-> 404, detail |-> "Not found", body |-> NoBody]
    ELSE [code |-> 200, detail |-> "",
          body |-> [token |-> token, plate |-> db[token].plate,
                    status |-> db[token].status,
                    updated_at |-> db[token].updated_at]]

----------------------------------------------------------------------------
(* Initial state: the module has been imported, init_db has created an     *)
(* empty table, no request is being handled.                               *)

Init ==
    /\ TECH_API_KEY \in {"", "k"}       \* os.getenv("TECH_API_KEY", "")
    /\ clock = 0
    /\ rdv = [t \in Tokens |-> NoRow]
    /\ req = [p \in Workers |-> Idle]
    /\ last = NoResp
    /\ admitted = 0

\* Time passes.
Tick ==
    /\ clock < MaxClock
    /\ clock' = clock + 1
    /\ last' = NoResp
    /\ UNCHANGED <<TECH_API_KEY, rdv, req, admitted>>

\* A new request is taken by the lowest idle worker thread (which thread of
\* the pool runs a handler has no effect on it).
Accepts(p) ==
    /\ req[p].pc = "idle"
    /\ \A q \in Workers : q < p => req[q].pc # "idle"

----------------------------------------------------------------------------
(* POST /create *)

\* Lines 89-93: the gate, normalize_plate, the token and the clock read.
create_rdv_begin(p, plate, x_api_key, token) ==
    /\ Accepts(p)
    /\ LET g == require_api_key(x_api_key) IN
       IF g # "ok"
       THEN /\ last' = GateError("create", g, x_api_key)
            /\ UNCHANGED <<req, admitted>>
       ELSE /\ admitted < MaxReqs
            /\ admitted' = admitted + 1
            /\ req' = [req EXCEPT ![p] =
                         [pc |-> "insert", key |-> x_api_key, token |-> token,
                          plate |-> normalize_plate(plate), now |-> utc_now_iso]]
            /\ last' = NoResp
    /\ UNCHANGED <<TECH_API_KEY, clock, rdv>>

\* Lines 95-104: the INSERT and its commit, then the response.
create_rdv_insert(p) ==
    /\ req[p].pc = "insert"
    /\ LET r == req[p] IN
       IF pk_violation(rdv, r.token)
       THEN /\ last' = Resp("create", [key |-> r.key, token |-> r.token], 500, "IntegrityError", NoBody)
            /\ UNCHANGED rdv
       ELSE /\ rdv' = sql_insert(rdv, r.token, r.plate, r.now)
            /\ last' = Resp("create", [key |-> r.key, token |-> r.token], 200, "",
                            [token |-> r.token, plate |-> r.plate,
                             status |-> 0, updated_at |-> r.now])
    /\ req' = [req EXCEPT ![p] = Idle]
    /\ UNCHANGED <<TECH_API_KEY, clock, admitted>>

----------------------------------------------------------------------------
(* POST /update *)

\* The arguments of the update request a worker is handling.
Args(r) ==
    [key |-> r.key, token |-> r.token, status |-> r.status,
     closed_before |-> r.closed_before]

\* update_rdv with the lookup moved before the range check.
update_rdv_begin_lookup_first(p, token, status, x_api_key) ==
    /\ Accepts(p)
    /\ LET g == require_api_key(x_api_key)
           cb == IsClosed(rdv, token)
           rq == [key |-> x_api_key, token |-> token, status |-> status,
                  closed_before |-> cb]
       IN
       IF g # "ok"
       THEN /\ last' = GateError("update", g, x_api_key)
            /\ UNCHANGED <<req, admitted>>
       ELSE IF ~HasRow(rdv, token)
       THEN /\ last' = Resp("update", rq, 404, "Not found", NoBody)
            /\ UNCHANGED <<req, admitted>>
       ELSE IF status_out_of_range(status)
       THEN /\ last' = Resp("update", rq, 400, "status must be between 0 and 3", NoBody)
            /\ UNCHANGED <<req, admitted>>
       ELSE /\ admitted < MaxReqs
            /\ admitted' = admitted + 1
            /\ req' = [req EXCEPT ![p] =
                         [pc |-> "select", key |-> x_api_key, token |-> token,
                          status |-> status,
                          now |-> utc_now_iso, closed_before |-> cb]]
            /\ last' = NoResp
    /\ UNCHANGED <<TECH_API_KEY, clock, rdv>>

\* Lines 110-115: the gate, the range check and the clock read.
update_rdv_begin(p, token, status, x_api_key) ==
    /\ Accepts(p)
    /\ LET g == require_api_key(x_api_key)
           cb == IsClosed(rdv, token)
       IN
       IF g # "ok"
       THEN /\ last' = GateError("update", g, x_api_key)
            /\ UNCHANGED <<req, admitted>>
       ELSE IF status_out_of_range(status)
       THEN /\ last' = Resp("update",
                            [key |-> x_api_key, token |-> token, status |-> status,
                             closed_before |-> cb],
                            400, "status must be between 0 and 3", NoBody)
            /\ UNCHANGED <<req, admitted>>
       ELSE /\ admitted < MaxReqs
            /\ admitted' = admitted + 1
            /\ req' = [req EXCEPT ![p] =
                         [pc |-> "select", key |-> x_api_key, token |-> token,
                          status |-> status,
                          now |-> utc_now_iso, closed_before |-> cb]]
            /\ last' = NoResp
    /\ UNCHANGED <<TECH_API_KEY, clock, rdv>>

\* Lines 117-127: SELECT is_closed, and the two checks on the row.
update_rdv_select(p) ==
    /\ req[p].pc = "select"
    /\ LET r == req[p]
           c == update_check(rdv, r.token)
       IN
       IF c = "not_found"
       THEN /\ last' = Resp("update", Args(r), 404, "Not found", NoBody)
            /\ req' = [req EXCEPT ![p] = Idle]
       ELSE IF c = "closed"
       THEN /\ last' = Resp("update", Args(r), 400, "RDV is closed", NoBody)
            /\ req' = [req EXCEPT ![p] = Idle]
       ELSE /\ req' = [req EXCEPT ![p].pc = "write"]
            /\ last' = NoResp
    /\ UNCHANGED <<TECH_API_KEY, clock, rdv, admitted>>

\* Lines 129-136: the UPDATE and its commit, then the response.
update_rdv_write(p) ==
    /\ req[p].pc = "write"
    /\ LET r == req[p] IN
       /\ rdv' = sql_update_status(rdv, r.token, r.status, r.now)
       /\ last' = Resp("update", Args(r), 200, "",
                       [ok |-> TRUE, token |-> r.token, status |-> r.status,
                        updated_at |-> r.now])
    /\ req' = [req EXCEPT ![p] = Idle]
    /\ UNCHANGED <<TECH_API_KEY, clock, admitted>>

----------------------------------------------------------------------------
(* GET /list: the gate and one SELECT *)

list_rdv(x_api_key) ==
    /\ LET g == require_api_key(x_api_key) IN
       IF g # "ok"
       THEN last' = GateError("list", g, x_api_key)
       ELSE \E rows \in ordered_desc(rdv, open_tokens(rdv)) :
               last' = Resp("list", [key |-> x_api_key], 200, "",
                            [i \in DOMAIN rows |-> list_item(rdv, rows[i])])
    /\ UNCHANGED <<TECH_API_KEY, clock, rdv, req, admitted>>

----------------------------------------------------------------------------
(* POST /close *)

\* The arguments of the close request a worker is handling.
CloseArgs(r) == [key |-> r.key, token |-> r.token, closed_before |-> r.closed_before]

\* Lines 174-176: the gate and the clock read.
close_rdv_begin(p, token, x_api_key) ==
    /\ Accepts(p)
    /\ LET g == require_api_key(x_api_key)
           cb == IsClosed(rdv, token)
       IN
       IF g # "ok"
       THEN /\ last' = GateError("close", g, x_api_key)
            /\ UNCHANGED <<req, admitted>>
       ELSE /\ admitted < MaxReqs
            /\ admitted' = admitted + 1
            /\ req' = [req EXCEPT ![p] =
                         [pc |-> "close", key |-> x_api_key, token |-> token,
                          now |-> utc_now_iso,
                          closed_before |-> cb]]
            /\ last' = NoResp
    /\ UNCHANGED <<TECH_API_KEY, clock, rdv>>

\* Lines 177-187: the UPDATE and its commit, the rowcount check, the response.
close_rdv_write(p) ==
    /\ req[p].pc = "close"
    /\ LET r == req[p]
           changed == rowcount(rdv, r.token)
       IN
       /\ rdv' = sql_close(rdv, r.token, r.now)
       /\ last' = IF changed = 0
                  THEN Resp("close", CloseArgs(r), 404, "Not found", NoBody)
                  ELSE Resp("close", CloseArgs(r), 200, "",
                            [ok |-> TRUE, token |-> r.token, updated_at |-> r.now])
    /\ req' = [req EXCEPT ![p] = Idle]
    /\ UNCHANGED <<TECH_API_KEY, clock, admitted>>

----------------------------------------------------------------------------
(* GET /status/{token}: one SELECT, no gate *)

get_status(token) ==
    /\ LET r == get_status_resp(rdv, token) IN
       last' = Resp("get", [token |-> token, closed_before |-> IsClosed(rdv, token)],
                    r.code, r.detail, r.body)
    /\ UNCHANGED <<TECH_API_KEY, clock, rdv, req, admitted>>

----------------------------------------------------------------------------

Next ==
    \/ Tick
    \/ \E p \in Workers, plate \in Plates, k \in Keys, t \in Tokens :
          create_rdv_begin(p, plate, k, t)
    \/ \E p \in Workers : create_rdv_insert(p)
    \/ \E p \in Workers, t \in Tokens, s \in StatusInputs, k \in Keys :
          update_rdv_begin(p, t, s, k)
    \/ \E p \in Workers : update_rdv_select(p)
    \/ \E p \in Workers : update_rdv_write(p)
    \/ \E k \in Keys : list_rdv(k)
    \/ \E p \in Workers, t \in Tokens, k \in Keys : close_rdv_begin(p, t, k)
    \/ \E p \in Workers : close_rdv_write(p)
    \/ \E t \in Tokens : get_status(t)

Spec == Init /\ [][Next]_vars

----------------------------------------------------------------------------
(* normalize_plate on its own: every string over Chars of at most           *)
(* MaxPlateLen characters, and the plate of the documented example, is     *)
(* normalized, and the result is normalized again.                         *)

MaxPlateLen == 3

\* Whitespace, a lower-case and an upper-case letter, a digit, the hyphen,
\* punctuation, a letter whose capital is not ASCII and one whose capital
\* is two letters.
Chars == {" ", "\t", "a", "A", "1", "-", "!", "é", "ß"}

ExamplePlate == <<" ", " ", "a", "b", " ", "c", "d", "!", "!">>

PlateInputs ==
    UNION {[1..n -> Chars] : n \in 0..MaxPlateLen} \cup {ExamplePlate}

InitNorm ==
    /\ TECH_API_KEY = "k"
    /\ clock = 0
    /\ rdv = [t \in Tokens |-> NoRow]
    /\ admitted = 0
    /\ req \in {[plate |-> s] : s \in PlateInputs}
    /\ last = NoResp

Normalize ==
    /\ last = NoResp
    /\ last' = [op |-> "normalize_plate",
                once |-> normalize_plate(req.plate),
                twice |-> normalize_plate(normalize_plate(req.plate))]
    /\ UNCHANGED <<TECH_API_KEY, clock, rdv, req, admitted>>

NextNorm == Normalize

SpecNorm == InitNorm /\ [][NextNorm]_vars

----------------------------------------------------------------------------
(* Properties *)

\* The technician operations, which pass through the gate.
TechOps == {"create", "update", "list", "close"}

\* A technician request that came with the configured secret.
Authorized(r) == r.op \in TechOps /\ TECH_API_KEY # "" /\ r.rq.key = TECH_API_KEY

\* C1, as claimed: once close(token) has succeeded, every later update of the
\* token with a valid credential fails with Conflict whatever its status
\* argument, and every later get of the token fails with Not-found.
C1_AsClaimed ==
    /\ (last.op = "update" /\ Authorized(last) /\ last.rq.closed_before)
          => IsConflict(last)
    /\ (last.op = "get" /\ last.rq.closed_before) => IsNotFound(last)

\* C1, amended: once close(token) has succeeded, every later update of the
\* token with a valid credential fails: with Conflict when its status argument
\* is in 0..3, with Validation when it is not; and every later get of the
\* token fails with Not-found.
C1_ClosedRejectsLaterRequests ==
    /\ (last.op = "update" /\ Authorized(last) /\ last.rq.closed_before)
          => IF last.rq.status \in 0..3 THEN IsConflict(last) ELSE IsValidation(last)
    /\ (last.op = "get" /\ last.rq.closed_before) => IsNotFound(last)

\* An in-range update of a token that was already closed when the update began.
C1_Witness ==
    /\ last.op = "update"
    /\ Authorized(last)
    /\ last.rq.closed_before
    /\ last.rq.status \in 0..3
    /\ IsConflict(last)

\* C2: under any interleaving of the store steps of concurrent requests, the
\* stored status of a record never changes in a state where its is_closed is
\* true (an update in flight when the close commits is never applied).
C2_ClosedStatusFrozen ==
    [][\A t \in Tokens : IsClosed(rdv, t) => rdv'[t].status = rdv[t].status]_vars

\* C3: closed is terminal: no step of any operation takes a record whose
\* is_closed is true to a state where it is absent or its is_closed is false.
C3_ClosedIsTerminal ==
    [][\A t \in Tokens : IsClosed(rdv, t) => IsClosed(rdv', t)]_vars

\* A create whose generated token collided with a closed record: the record
\* is still closed after the failed INSERT.
C3_Witness ==
    /\ last.op = "create"
    /\ last.code = 500
    /\ Authorized(last)
    /\ IsClosed(rdv, last.rq.token)

\* C4: with no configured secret every technician operation fails with the
\* configuration error, whatever credential and arguments it is given; with
\* a secret configured and another (or no) credential supplied it fails with
\* the authorization error; either way the request ends at the gate, before
\* the range check and before any store step (no worker takes it up), and
\* the store is unchanged.
C4_GateFirst ==
    [][/\ TECH_API_KEY = ""
            => /\ last'.op \in TechOps => IsConfigError(last')
               /\ rdv' = rdv
               /\ req' = req
       /\ (TECH_API_KEY # "" /\ last'.op \in TechOps /\ last'.rq.key # TECH_API_KEY)
            => /\ IsUnauthorized(last')
               /\ rdv' = rdv
               /\ req' = req
       /\ \A p \in Workers :
             req'[p].pc # "idle" => TECH_API_KEY # "" /\ req'[p].key = TECH_API_KEY]_vars

\* An update refused at the gate while the store holds a record.
C4_Witness ==
    /\ last.op = "update"
    /\ IsUnauthorized(last)
    /\ \E t \in Tokens : HasRow(rdv, t)

\* C5: an authorized update with a status outside 0..3 fails with the
\* Validation error, whether the token is open, closed or absent; it is
\* never taken further, and every stored record is left as it was.
C5_OutOfRangeRejected ==
    [][/\ (last'.op = "update" /\ Authorized(last') /\ last'.rq.status \notin 0..3)
            => /\ IsValidation(last')
               /\ rdv' = rdv
               /\ req' = req
       /\ \A p \in Workers :
             req'[p].pc \in {"select", "write"} => req'[p].status \in 0..3]_vars

\* An out-of-range update of an open record was refused.
C5_Witness ==
    /\ last.op = "update"
    /\ IsValidation(last)
    /\ HasRow(rdv, last.rq.token)
    /\ ~IsClosed(rdv, last.rq.token)
    /\ rdv[last.rq.token].status = 3

\* C6: every stored record has a status in 0..3.
C6_StatusInRange ==
    \A t \in Tokens : HasRow(rdv, t) => rdv[t].status \in 0..3

\* A record was updated to the upper end of the range.
C6_Witness ==
    /\ last.op = "update"
    /\ IsOK(last)
    /\ rdv[last.rq.token].status = 3

\* C7: get answers a token whose record is closed exactly as it answers the
\* same token in the store without that record: the two stores give the same
\* response, and it is the response a get of a closed token returns.
C7_ClosedLooksAbsent ==
    /\ \A t \in Tokens :
          IsClosed(rdv, t)
             => get_status_resp(rdv, t) = get_status_resp([rdv EXCEPT ![t] = NoRow], t)
    /\ (last.op = "get" /\ last.rq.closed_before)
          => [code |-> last.code, detail |-> last.detail, body |-> last.body]
                = get_status_resp([rdv EXCEPT ![last.rq.token] = NoRow], last.rq.token)

\* A get of a closed token, with the other token's record open.
C7_Witness ==
    /\ last.op = "get"
    /\ last.rq.closed_before
    /\ \E t \in Tokens : HasRow(rdv, t) /\ ~IsClosed(rdv, t)

\* C8: an authorized close fails only on an unknown token: on an existing
\* record, open or already closed, it succeeds and leaves is_closed true and
\* the status as it was, so a second close in a row succeeds like the first
\* and changes neither.
C8_CloseIdempotent ==
    [][(last'.op = "close" /\ Authorized(last'))
          => LET t == last'.rq.token IN
             IF HasRow(rdv, t)
             THEN /\ IsOK(last')
                  /\ IsClosed(rdv', t)
                  /\ rdv'[t].status = rdv[t].status
             ELSE /\ IsNotFound(last')
                  /\ rdv' = rdv]_vars

\* A close of a record that was already closed when the close began succeeded.
C8_Witness ==
    /\ last.op = "close"
    /\ Authorized(last)
    /\ last.rq.closed_before
    /\ IsOK(last)

\* C9: an authorized list returns exactly the records whose is_closed is
\* false in the current state, each once and as stored, in order of
\* non-increasing updated_at.
C9_ListOpenDescending ==
    (last.op = "list" /\ Authorized(last))
    => LET items == last.body IN
       /\ IsOK(last)
       /\ {items[i].token : i \in DOMAIN items}
             = {t \in Tokens : HasRow(rdv, t) /\ rdv[t].is_closed = 0}
       /\ \A i, j \in DOMAIN items : i # j => items[i].token # items[j].token
       /\ \A i \in DOMAIN items :
             LET row == rdv[items[i].token] IN
             /\ items[i].plate = row.plate
             /\ items[i].status = row.status
             /\ items[i].created_at = row.created_at
             /\ items[i].updated_at = row.updated_at
       /\ \A i, j \in DOMAIN items :
             i < j => items[i].updated_at >= items[j].updated_at

\* A list of two open records touched at different times.
C9_Witness ==
    /\ last.op = "list"
    /\ IsOK(last)
    /\ Len(last.body) = 2
    /\ last.body[1].updated_at > last.body[2].updated_at

\* C10: an authorized update with a status outside 0..3 of a token that was
\* never created fails with the Validation error, not with Not-found.
C10_RangeBeforeLookup ==
    (/\ last.op = "update"
     /\ Authorized(last)
     /\ last.rq.status \notin 0..3
     /\ ~HasRow(rdv, last.rq.token))
    => IsValidation(last) /\ ~IsNotFound(last)

\* An out-of-range update of a token that has no record was refused.
C10_Witness ==
    /\ last.op = "update"
    /\ Authorized(last)
    /\ last.rq.status \notin 0..3
    /\ ~HasRow(rdv, last.rq.token)
    /\ last.code = 400

\* C11: every successful create adds exactly one record, under a token that
\* had none, with the normalized plate, status 0, is_closed false and
\* created_at equal to updated_at, and leaves every other record unchanged.
C11_CreateAddsOneOpenRecord ==
    [][(last'.op = "create" /\ IsOK(last'))
          => LET t == last'.rq.token IN
             /\ ~HasRow(rdv, t)
             /\ HasRow(rdv', t)
             /\ rdv'[t].status = 0
             /\ rdv'[t].is_closed = 0
             /\ rdv'[t].created_at = rdv'[t].updated_at
             /\ rdv'[t].plate = last'.body.plate
             /\ last'.body.status = 0
             /\ \A u \in Tokens \ {t} : rdv'[u] = rdv[u]]_vars

\* A create succeeded at second 1 while the other token's record exists.
C11_Witness ==
    /\ last.op = "create"
    /\ IsOK(last)
    /\ rdv[last.rq.token].created_at = 1
    /\ \E u \in Tokens \ {last.rq.token} : HasRow(rdv, u)

\* C12: a create whose generated token already has a record fails and
\* leaves the whole store, that record included, as it was.
C12_CollisionRejected ==
    [][(last'.op = "create" /\ Authorized(last') /\ HasRow(rdv, last'.rq.token))
          => /\ ~IsOK(last')
             /\ rdv' = rdv]_vars

\* A create collided with an open record that had been updated.
C12_Witness ==
    /\ last.op = "create"
    /\ Authorized(last)
    /\ last.code = 500
    /\ ~IsClosed(rdv, last.rq.token)
    /\ rdv[last.rq.token].status = 3

\* C13: after every successful update or close of a record (a close of an
\* already closed record included) its updated_at is strictly greater than
\* it was before the operation.
C13_UpdatedAtAdvances ==
    [][(last'.op \in {"update", "close"} /\ IsOK(last'))
          => rdv'[last'.rq.token].updated_at > rdv[last'.rq.token].updated_at]_vars

\* C14: an authorized update with a status in 0..3 of a record that exists
\* and is open when the update looks it up is not refused, whatever the
\* stored status; it goes on to its write, which succeeds, and after the
\* write the stored status is the new status (greater, equal or lower).
C14_AnyInRangeStatusAccepted ==
    [][/\ (/\ last'.op = "update"
           /\ Authorized(last')
           /\ last'.rq.status \in 0..3
           /\ HasRow(rdv, last'.rq.token)
           /\ ~IsClosed(rdv, last'.rq.token))
            => IsOK(last')
       /\ (last'.op = "update" /\ IsOK(last'))
            => /\ rdv'[last'.rq.token].status = last'.rq.status
               /\ last'.body.status = last'.rq.status
       /\ \A p \in Workers :
             (/\ req[p].pc = "select"
              /\ req'[p] # req[p]
              /\ HasRow(rdv, req[p].token)
              /\ ~IsClosed(rdv, req[p].token))
               => /\ req'[p].pc = "write"
                  /\ req'[p].status = req[p].status
                  /\ req'[p].token = req[p].token
       /\ \A p \in Workers :
             (req[p].pc = "write" /\ req'[p] # req[p])
               => /\ last'.op = "update"
                  /\ IsOK(last')
                  /\ last'.rq.token = req[p].token
                  /\ last'.rq.status = req[p].status]_vars

\* An update to status 0, the lowest, succeeded on an open record at second 1
\* (every status the record had before was 0 or more).
C14_Witness ==
    /\ last.op = "update"
    /\ IsOK(last)
    /\ last.rq.status = 0
    /\ ~IsClosed(rdv, last.rq.token)
    /\ rdv[last.rq.token].status = 0
    /\ rdv[last.rq.token].updated_at = 1

\* The characters [A-Z0-9-].
PlateAlphabet ==
    {"A", "B", "C", "D", "E", "F", "G", "H", "I", "J", "K", "L", "M",
     "N", "O", "P", "Q", "R", "S", "T", "U", "V", "W", "X", "Y", "Z",
     "0", "1", "2", "3", "4", "5", "6", "7", "8", "9", "-"}

\* C15: normalize_plate is idempotent, its output holds only upper-case
\* ASCII letters, digits and hyphens, and "  ab cd!!" gives "AB-CD".
C15_NormalizeIdempotent ==
    last.op = "normalize_plate"
    => /\ last.twice = last.once
       /\ \A i \in DOMAIN last.once : last.once[i] \in PlateAlphabet
       /\ req.plate = ExamplePlate => last.once = <<"A", "B", "-", "C", "D">>

\* A plate of three characters, none of them kept as it is, was normalized.
C15_Witness ==
    /\ last.op = "normalize_plate"
    /\ req.plate = <<"ß", " ", "é">>
    /\ last.once = <<"S", "S", "-">>
    /\ last.twice = last.once

\* C16: a successful update changes only status and updated_at of the record
\* of its token, a successful close only is_closed and updated_at of the
\* record of its token; plate and created_at of a record never change, a
\* record stays under its token, and no other step changes a record.
C16_MutationFrame ==
    [][\A t \in Tokens :
          HasRow(rdv, t)
          => /\ HasRow(rdv', t)
             /\ rdv'[t].plate = rdv[t].plate
             /\ rdv'[t].created_at = rdv[t].created_at
             /\ rdv'[t] # rdv[t]
                  => /\ last'.op \in {"update", "close"}
                     /\ IsOK(last')
                     /\ last'.rq.token = t
                     /\ last'.op = "update" => rdv'[t].is_closed = rdv[t].is_closed
                     /\ last'.op = "close" => rdv'[t].status = rdv[t].status]_vars

\* An update succeeded on one record at second 1 while the other token has a
\* record written at second 0.
C16_Witness ==
    /\ last.op = "update"
    /\ IsOK(last)
    /\ rdv[last.rq.token].status = 3
    /\ rdv[last.rq.token].updated_at = 1
    /\ \E u \in Tokens \ {last.rq.token} : HasRow(rdv, u) /\ rdv[u].updated_at = 0

\* C17: every operation that returns an error (configuration, authorization,
\* validation, not-found, conflict, or the failed INSERT) leaves the whole
\* store as it was.
C17_ErrorsChangeNothing ==
    [][(last'.op # "none" /\ ~IsOK(last')) => rdv' = rdv]_vars

\* A close of a token that has no record failed while the store holds the
\* other token's record.
C17_Witness ==
    /\ last.op = "close"
    /\ IsNotFound(last)
    /\ ~HasRow(rdv, last.rq.token)
    /\ \E u \in Tokens : HasRow(rdv, u)

\* C18: no step removes a record: a token that has a record keeps one.
C18_NeverDeleted ==
    [][\A t \in Tokens : HasRow(rdv, t) => HasRow(rdv', t)]_vars

\* Both tokens have a record, one of them closed by the step just taken.
C18_Witness ==
    /\ last.op = "close"
    /\ IsOK(last)
    /\ IsClosed(rdv, last.rq.token)
    /\ \A u \in Tokens : HasRow(rdv, u)

\* C19: with a non-decreasing clock, the updated_at of a record never
\* decreases, under any interleaving of the steps of concurrent requests.
C19_UpdatedAtNeverDecreases ==
    [][\A t \in Tokens :
          HasRow(rdv, t) => rdv'[t].updated_at >= rdv[t].updated_at]_vars

====
